---- MODULE Spec2Model ----
(***************************************************************************)
(* Offline-first synchronisation engine of the field app: the IndexedDB    *)
(* store and sync queue of the offline manager, the drain                  *)
(* (syncPendingData), the connectivity listeners, the visit page's         *)
(* mutation handlers and the service worker's /api/ fetch branch.          *)
(***************************************************************************)
EXTENDS Integers, Sequences, FiniteSets, Bags, TLC

\* ---------------------------------------------------------------- bounds
\* Number of events of a run: the mutation handlers the user runs (each ticks
\* the clock) plus the invocations of syncPendingData.
MaxEvents == 4

\* The highest zoom level a tile prefetch is asked for.
MaxZoomInput == 15

\* for (let z = 14; ...): the lowest zoom level getTileUrls enumerates.
MinZoom == 14

Projects == {"p1"}
Labels == {"well_location"}
NoteTexts == {"n1"}
Files == {"f1"}

VARIABLES
    online,       \* navigator.onLine
    isOffline,    \* visit page's isOffline flag
    controlled,   \* the page's requests are intercepted by the service worker
    page,         \* "visit" while the visit page runs, "left" after it navigated away
    projectId,    \* visit page's projectId
    projectData,  \* visit page's in-memory project
    visitState,   \* localStorage item visit_<projectId>: clock value of its last save, 0 = none
    now,          \* Date.now(), a logical clock that ticks once per handler that reads it
    db,           \* IndexedDB: object stores and their key generators
    server,       \* the remote store behind /api/
    drains,       \* the invocations of syncPendingData, by invocation number
    runs,         \* number of invocations of syncPendingData so far
    lastSubmit,   \* history: the latest mutation handler, its direct submit and what it saw
    accepted,     \* history: clock values of the mutations the server has applied
    acked,        \* history: ids of the queue entries whose drain request the server
                  \* applied, and of those whose 2xx response was delivered
    owed,         \* history: ids of the entries that were queued at the latest 'online' event
    caches,       \* the service worker's Cache Storage: its caches by name
    lastFetch,    \* history: the latest request the service worker intercepted, its answer,
                  \* and the latest ok response the network gave to each GET
    worker,       \* the service worker's lifecycle state: "installed" or "activated"
    prefetch      \* the run of cacheTilesForArea: its tile list, position and counts

vars == <<online, isOffline, controlled, page, projectId, projectData, visitState,
          now, db, server, drains, runs, lastSubmit, accepted, acked, owed,
          caches, lastFetch, worker, prefetch>>

\* ------------------------------------------------------------- helpers
Range(s) == {s[k] : k \in 1..Len(s)}

RECURSIVE SortByKey(_, _)
\* The records of an object store in ascending order of their key.
SortByKey(S, key) ==
    IF S = {} THEN <<>>
    ELSE LET k == CHOOSE x \in {r[key] : r \in S} : \A y \in {r[key] : r \in S} : x <= y
             lo == CHOOSE r \in S : r[key] = k
         IN  <<lo>> \o SortByKey(S \ {lo}, key)

\* Date.prototype.toISOString: a string, no longer the number it was made from.
ToISOString(t) == <<"iso", t>>

\* ------------------------------------------------------------- network
\* What can happen to one request put on the network:
\*   ok        the server applied it and its 2xx response arrived
\*   rejected  the server answered non-ok (4xx/5xx) and applied nothing
\*   neterr    the request never reached the server; fetch rejects
\*   lostack   the server applied it but the response was lost; fetch rejects
NetOutcomes == IF online THEN {"ok", "rejected", "neterr", "lostack"} ELSE {"neterr"}

\* A response as its receiver sees it: ok, what kind of body it has and, in
\* json, the resource a GET returned (<<>> when there is none).
Thrown == [thrown |-> TRUE, ok |-> FALSE, body |-> "none", json |-> <<>>]
Response(ok, body) == [thrown |-> FALSE, ok |-> ok, body |-> body, json |-> <<>>]

\* fetch() of a page no service worker controls.
DirectFetch(out) ==
    CASE out = "ok" -> Response(TRUE, "server")
      [] out = "rejected" -> Response(FALSE, "server")
      [] OTHER -> Thrown

\* caches.match(request) for a request under /api/: a request whose method is
\* not GET matches no cached response.
CachesMatch(method) == IF method = "GET" THEN "unknown" ELSE "none"

\* The service worker's fetch handler, /api/ branch, for a non-GET request.
SWApiFetch(method, out) ==
    CASE out = "ok" -> Response(TRUE, "server")
      [] out = "rejected" -> Response(FALSE, "server")
      [] OTHER ->
           IF CachesMatch(method) = "none"
           THEN Response(TRUE, "offline_marker")   \* new Response(...) has status 200
           ELSE Response(TRUE, "cached")

\* fetch() as the page sees it.
PageFetch(method, out) ==
    IF controlled THEN SWApiFetch(method, out) ELSE DirectFetch(out)

\* The server's handling of a request it applies.
ServerApply(s, method, endpoint, data) ==
    CASE endpoint.res = "gps" -> [s EXCEPT !.gps = @ (+) SetToBag({data})]
      [] endpoint.res = "photo" -> [s EXCEPT !.photos = @ (+) SetToBag({data})]
      [] OTHER -> [s EXCEPT !.project = data]

ServerAfter(s, out, method, endpoint, data) ==
    IF out \in {"ok", "lostack"} THEN ServerApply(s, method, endpoint, data) ELSE s

\* ------------------------------------------------------------- local store
\* Outcomes of a write (add/put) to an object store: TRUE = the transaction
\* completes. A write can fail once the storage quota is used up.
WriteOutcomes == IF db.full THEN BOOLEAN ELSE {TRUE}

GpsEndpoint(pid) == [res |-> "gps", project |-> pid]
PhotoEndpoint(pid) == [res |-> "photo", project |-> pid]
ProjectEndpoint(pid) == [res |-> "project", project |-> pid]

\* obj with field f set to v, added when obj has no such field.
SetField(obj, f, v) == [g \in DOMAIN obj \cup {f} |-> IF g = f THEN v ELSE obj[g]]

\* saveProjectLocal stamping only an object that carries no lastModified yet.
TouchProjectKeepsStamp(project, t) ==
    SetField(SetField(project, "synced", FALSE), "lastModified",
             IF "lastModified" \in DOMAIN project THEN project.lastModified ELSE t)

\* saveProjectLocal writes synced and lastModified into the object it is given.
TouchProject(project, t) ==
    SetField(SetField(project, "synced", FALSE), "lastModified", t)

saveProjectLocal(d, project, t) ==
    [d EXCEPT !.projects = {p \in @ : p.id # project.id} \cup {TouchProject(project, t)}]

\* saveGPSPointLocal keeping one record per position: a capture at the
\* coordinates of an earlier record takes its place.
saveGPSPointLocalKeyedByPosition(d, pid, point, t) ==
    LET data == SetField(SetField(SetField(point, "project_id", pid),
                                  "synced", FALSE), "timestamp", t)
    IN  [d EXCEPT !.gps_points =
                     {r \in @ : r.lat # point.lat \/ r.lon # point.lon}
                       \cup {SetField(data, "localId", d.keygen.gps_points + 1)},
                  !.keygen.gps_points = @ + 1]

\* The record is { ...point, project_id, synced: false, timestamp: Date.now() }:
\* the point's own timestamp is replaced; the store adds the key localId.
saveGPSPointLocal(d, pid, point, t) ==
    LET data == SetField(SetField(SetField(point, "project_id", pid),
                                  "synced", FALSE), "timestamp", t)
    IN  [d EXCEPT !.gps_points =
                     @ \cup {SetField(data, "localId", d.keygen.gps_points + 1)},
                  !.keygen.gps_points = @ + 1]

savePhotoLocal(d, pid, photoData, label, t) ==
    [d EXCEPT !.photos =
                 @ \cup {[localId |-> d.keygen.photos + 1, project_id |-> pid,
                          data |-> photoData, label |-> label, synced |-> FALSE,
                          timestamp |-> t]},
              !.keygen.photos = @ + 1]

\* addToSyncQueue numbering the new entry after the entries now in the store.
addToSyncQueueReusesIds(d, action, endpoint, data, t) ==
    LET ids == {e.id : e \in d.sync_queue}
        top == IF ids = {} THEN 0 ELSE CHOOSE x \in ids : \A y \in ids : y <= x
    IN  [d EXCEPT !.sync_queue =
                     @ \cup {[id |-> top + 1, action |-> action, endpoint |-> endpoint,
                              data |-> data, timestamp |-> t, attempts |-> 0]},
                  !.keygen.sync_queue = top + 1]

addToSyncQueue(d, action, endpoint, data, t) ==
    [d EXCEPT !.sync_queue =
                 @ \cup {[id |-> d.keygen.sync_queue + 1, action |-> action,
                          endpoint |-> endpoint, data |-> data, timestamp |-> t,
                          attempts |-> 0]},
              !.keygen.sync_queue = @ + 1]

RECURSIVE Reverse(_)
Reverse(q) == IF q = <<>> THEN <<>> ELSE Reverse(Tail(q)) \o <<Head(q)>>

\* getPendingSyncs reading the queue newest first.
getPendingSyncsNewestFirst(d) == Reverse(SortByKey(d.sync_queue, "id"))

getPendingSyncs(d) == SortByKey(d.sync_queue, "id")

removeFromSyncQueue(d, id) ==
    [d EXCEPT !.sync_queue = {e \in @ : e.id # id}]

getUnsyncedCount(d) == Len(getPendingSyncs(d))

\* ------------------------------------------------------------- drain
\* An invocation of syncPendingData: its position, its locals (pending, the
\* loop index i, synced, failed) and, as history, the ids it put on the network
\* (sent) and the invocations that were in their loop when it began (overlaps).
IdleDrain == [pc |-> "idle", trigger |-> "none", pending |-> <<>>, i |-> 1,
              synced |-> 0, failed |-> 0, sent |-> <<>>, overlaps |-> {},
              toast |-> <<>>]

\* syncPendingData counting a pass over an empty queue as a failure.
BeginDrainCountsEmptyPass(trigger, on, d) ==
    IF ~on
    THEN [IdleDrain EXCEPT !.pc = "done", !.trigger = trigger]
    ELSE LET pending == getPendingSyncs(d)
         IN  [IdleDrain EXCEPT !.pc = IF pending = <<>> THEN "done" ELSE "loop",
                               !.trigger = trigger, !.pending = pending,
                               !.failed = IF pending = <<>> THEN 1 ELSE 0]

\* syncPendingData without its connectivity check.
BeginDrainIgnoresConnectivity(trigger, on, d) ==
    LET pending == getPendingSyncs(d)
    IN  [IdleDrain EXCEPT !.pc = IF pending = <<>> THEN "done" ELSE "loop",
                          !.trigger = trigger, !.pending = pending]

\* syncPendingData up to its loop: the connectivity check, then the snapshot
\* of the queue. on is navigator.onLine at the call, d the database.
BeginDrain(trigger, on, d) ==
    IF ~on
    THEN [IdleDrain EXCEPT !.pc = "done", !.trigger = trigger]
    ELSE LET pending == getPendingSyncs(d)
         IN  [IdleDrain EXCEPT !.pc = IF pending = <<>> THEN "done" ELSE "loop",
                               !.trigger = trigger, !.pending = pending]

\* The invocations that are in their loop.
InFlight == {r \in 1..MaxEvents : drains[r].pc = "loop"}

\* What the caller shows once syncPendingData has returned { synced, failed }:
\* the offline manager's 'online' listener shows "Synced <n> items" when
\* synced > 0; the visit page's listener and the 'do-sync' listener drop
\* the result.
ResultToast(trigger, synced, failed) ==
    IF trigger = "online-manager" /\ synced > 0
    THEN <<[synced |-> synced]>>
    ELSE <<>>

\* A drain with its caller's notification once it has returned.
Returned(dr) ==
    IF dr.pc = "done"
    THEN [dr EXCEPT !.toast = ResultToast(dr.trigger, dr.synced, dr.failed)]
    ELSE dr

\* A call of syncPendingData, with the invocations it overlaps noted.
StartDrain(trigger, on, d, others) ==
    LET dr == BeginDrain(trigger, on, d)
    IN  Returned([dr EXCEPT !.overlaps = IF dr.pc = "loop" THEN others ELSE {}])

\* A loop that gives up at the first failed item.
NextItemStopsOnFailure(i, good, n) == IF good THEN i + 1 ELSE n + 1

\* The loop position after the item at position i of n: the for loop goes on
\* to the next item whether the iteration ended in the try or in the catch.
NextItem(i, good, n) == i + 1

\* An iteration counts as synced when the response is ok and the removal
\* succeeded; every other way through the try/catch counts as failed.
IterationSynced(resp, rmOk) == ~resp.thrown /\ resp.ok /\ rmOk

\* An iteration that also deletes the entry the server answered non-ok.
QueueAfterIterationDropsRejected(d, item, resp, rmOk) ==
    IF ~resp.thrown /\ (~resp.ok \/ rmOk) THEN removeFromSyncQueue(d, item.id) ELSE d

\* An iteration that, once the entry is acknowledged, also clears the local
\* records written when the entry was queued.
QueueAfterIterationPurgesLocal(d, item, resp, rmOk) ==
    IF ~resp.thrown /\ resp.ok /\ rmOk
    THEN [removeFromSyncQueue(d, item.id) EXCEPT
            !.gps_points = {r \in @ : r.timestamp # item.timestamp},
            !.photos = {r \in @ : r.timestamp # item.timestamp}]
    ELSE d

\* An iteration that, once the entry is acknowledged, marks the local records
\* written when the entry was queued as synced.
QueueAfterIterationMarksSynced(d, item, resp, rmOk) ==
    IF ~resp.thrown /\ resp.ok /\ rmOk
    THEN [removeFromSyncQueue(d, item.id) EXCEPT
            !.gps_points = {IF r.timestamp = item.timestamp
                            THEN [r EXCEPT !.synced = TRUE] ELSE r : r \in @},
            !.photos = {IF r.timestamp = item.timestamp
                        THEN [r EXCEPT !.synced = TRUE] ELSE r : r \in @}]
    ELSE d

\* An iteration that empties the whole queue once its entry is acknowledged.
QueueAfterIterationClearsQueue(d, item, resp, rmOk) ==
    IF ~resp.thrown /\ resp.ok /\ rmOk THEN [d EXCEPT !.sync_queue = {}] ELSE d

\* The queue after an iteration: the entry is deleted on an ok response; no
\* other path writes to the queue (attempts is never updated).
QueueAfterIteration(d, item, resp, rmOk) ==
    IF ~resp.thrown /\ resp.ok /\ rmOk THEN removeFromSyncQueue(d, item.id) ELSE d

\* One iteration of the for loop of syncPendingData.
DrainIteration(r) ==
    /\ page = "visit"
    /\ drains[r].pc = "loop"
    /\ LET dr == drains[r]
           item == dr.pending[dr.i]
       IN  \E out \in NetOutcomes, rmOk \in BOOLEAN :
             LET resp == PageFetch(item.action, out)
                 good == IterationSynced(resp, rmOk)
                 ni == NextItem(dr.i, good, Len(dr.pending))
             IN  /\ (~rmOk => ~resp.thrown /\ resp.ok)
                 /\ server' = ServerAfter(server, out, item.action, item.endpoint, item.data)
                 /\ db' = QueueAfterIteration(db, item, resp, rmOk)
                 /\ drains' = [drains EXCEPT ![r] =
                        Returned(
                        [dr EXCEPT !.sent = Append(@, item.id),
                                   !.synced = IF good THEN @ + 1 ELSE @,
                                   !.failed = IF good THEN @ ELSE @ + 1,
                                   !.i = ni,
                                   !.pc = IF ni > Len(dr.pending) THEN "done" ELSE "loop"])]
                 /\ accepted' = IF out \in {"ok", "lostack"}
                                THEN accepted \cup {item.timestamp} ELSE accepted
                 /\ acked' = [applied |-> IF out \in {"ok", "lostack"}
                                           THEN acked.applied \cup {item.id}
                                           ELSE acked.applied,
                               delivered |-> IF out = "ok"
                                             THEN acked.delivered \cup {item.id}
                                             ELSE acked.delivered]
    /\ UNCHANGED <<online, isOffline, controlled, page, projectId, projectData,
                   visitState, now, runs, lastSubmit, owed,
                   caches, lastFetch, worker, prefetch>>

\* ------------------------------------------------------------- connectivity
\* The 'online' event: the offline manager's listener, then the visit page's.
\* Each calls syncPendingData, which runs up to its first await.
OnlineEvent ==
    /\ page = "visit"
    /\ ~online
    /\ now + runs + 2 <= MaxEvents
    /\ online' = TRUE
    /\ isOffline' = FALSE
    /\ LET first == StartDrain("online-manager", TRUE, db, InFlight)
           second == StartDrain("online-visit", TRUE, db,
                                IF first.pc = "loop" THEN InFlight \cup {runs + 1}
                                ELSE InFlight)
       IN  drains' = [drains EXCEPT ![runs + 1] = first, ![runs + 2] = second]
    /\ runs' = runs + 2
    /\ owed' = {e.id : e \in db.sync_queue}
    /\ UNCHANGED <<controlled, page, projectId, projectData, visitState, now, db,
                   server, lastSubmit, accepted, acked,
                   caches, lastFetch, worker, prefetch>>

\* The 'offline' event: both listeners; neither calls syncPendingData.
OfflineEvent ==
    /\ page = "visit"
    /\ online
    /\ online' = FALSE
    /\ isOffline' = TRUE
    /\ UNCHANGED <<controlled, page, projectId, projectData, visitState, now, db,
                   server, drains, runs, lastSubmit, accepted, acked, owed,
                   caches, lastFetch, worker, prefetch>>

\* The service worker's 'do-sync' message reaching the page.
DoSyncMessage ==
    /\ page = "visit"
    /\ controlled
    /\ now + runs + 1 <= MaxEvents
    /\ drains' = [drains EXCEPT ![runs + 1] = StartDrain("do-sync", online, db, InFlight)]
    /\ runs' = runs + 1
    /\ UNCHANGED <<online, isOffline, controlled, page, projectId, projectData,
                   visitState, now, db, server, lastSubmit, accepted, acked, owed,
                   caches, lastFetch, worker, prefetch>>

\* ------------------------------------------------------------- mutations
\* The sensor reading the visit page holds; its acquisition is outside the model.
currentGPS == "reading"

\* compressImage: the data URL of the re-encoded JPEG.
compressImage(file) == <<"jpeg", file>>

Point(label, type, t) ==
    [label |-> label, lat |-> currentGPS, lon |-> currentGPS, type |-> type,
     timestamp |-> ToISOString(t)]

PhotoPayload(photoData, label, t) ==
    [photo |-> photoData, label |-> label, gps |-> currentGPS,
     timestamp |-> ToISOString(t)]

PushPoint(pd, point) == [pd EXCEPT !.gps_points = Append(@, point)]

PushPhoto(pd, id, label, photoData) ==
    [pd EXCEPT !.photos = Append(@, [id |-> id, label |-> label, data |-> photoData])]

NoResponse == [thrown |-> FALSE, ok |-> FALSE, body |-> "none", json |-> <<>>]

Submit(op, t, net, resp) == [op |-> op, t |-> t, net |-> net, resp |-> resp]

\* (await response.json()).success: only the server's own 2xx answer carries it.
ResultSuccess(resp) == ~resp.thrown /\ resp.ok /\ resp.body = "server"

\* saveGPSPointLocal, then addToSyncQueue. l and q tell whether the two
\* writes succeed; done tells whether both did.
GpsOfflineSave(d, pid, point, t, l, q) ==
    IF ~l THEN [db |-> d, done |-> FALSE]
    ELSE IF ~q THEN [db |-> saveGPSPointLocal(d, pid, point, t), done |-> FALSE]
    ELSE [db |-> addToSyncQueue(saveGPSPointLocal(d, pid, point, t), "POST",
                                GpsEndpoint(pid), point, t),
          done |-> TRUE]

\* savePhotoLocal, then addToSyncQueue.
PhotoOfflineSave(d, pid, photoData, label, t, l, q) ==
    IF ~l THEN [db |-> d, done |-> FALSE]
    ELSE IF ~q THEN [db |-> savePhotoLocal(d, pid, photoData, label, t), done |-> FALSE]
    ELSE [db |-> addToSyncQueue(savePhotoLocal(d, pid, photoData, label, t), "POST",
                                PhotoEndpoint(pid), PhotoPayload(photoData, label, t), t),
          done |-> TRUE]

\* saveProjectLocal, then addToSyncQueue. saveProjectLocal stamps the object it
\* is given before its transaction can fail, so pd is stamped on every path.
ProjectOfflineSave(d, pid, pd, t, l, q) ==
    IF ~l THEN [db |-> d, pd |-> TouchProject(pd, t), done |-> FALSE]
    ELSE IF ~q THEN [db |-> saveProjectLocal(d, pd, t), pd |-> TouchProject(pd, t),
                     done |-> FALSE]
    ELSE [db |-> addToSyncQueue(saveProjectLocal(d, pd, t), "PUT",
                                ProjectEndpoint(pid), TouchProject(pd, t), t),
          pd |-> TouchProject(pd, t), done |-> TRUE]

saveGPSPoint ==
    /\ page = "visit"
    /\ now + runs < MaxEvents
    /\ \E label \in Labels, out \in NetOutcomes, l1, q1, l2, q2 \in WriteOutcomes :
         LET t == now + 1
             point == Point(label, "gps", t)
             resp == IF online THEN PageFetch("POST", out) ELSE NoResponse
             first == GpsOfflineSave(db, projectId, point, t, l1, q1)
             caught == IF online THEN resp.thrown ELSE ~first.done
             dbTry == IF online THEN db ELSE first.db
             second == GpsOfflineSave(dbTry, projectId, point, t, l2, q2)
         IN  /\ now' = t
             /\ server' = IF online
                          THEN ServerAfter(server, out, "POST", GpsEndpoint(projectId), point)
                          ELSE server
             /\ db' = IF caught THEN second.db ELSE dbTry
             /\ projectData' = IF ~caught \/ second.done
                               THEN PushPoint(projectData, point) ELSE projectData
             /\ lastSubmit' = Submit("saveGPSPoint", t, IF online THEN out ELSE "none", resp)
             /\ accepted' = IF online /\ out \in {"ok", "lostack"}
                            THEN accepted \cup {t} ELSE accepted
    /\ UNCHANGED <<online, isOffline, controlled, page, projectId, visitState,
                   drains, runs, acked, owed,
                   caches, lastFetch, worker, prefetch>>

savePinFromPopup ==
    /\ page = "visit"
    /\ now + runs < MaxEvents
    /\ \E label \in Labels, out \in NetOutcomes :
         LET t == now + 1
             point == Point(label, "map_pin", t)
             resp == PageFetch("POST", out)
         IN  /\ now' = t
             /\ server' = ServerAfter(server, out, "POST", GpsEndpoint(projectId), point)
             /\ projectData' = IF resp.thrown THEN projectData
                               ELSE PushPoint(projectData, point)
             /\ lastSubmit' = Submit("savePinFromPopup", t, out, resp)
             /\ accepted' = IF out \in {"ok", "lostack"} THEN accepted \cup {t} ELSE accepted
    /\ UNCHANGED <<online, isOffline, controlled, page, projectId, visitState, db,
                   drains, runs, acked, owed,
                   caches, lastFetch, worker, prefetch>>

handlePhotoCapture ==
    /\ page = "visit"
    /\ now + runs < MaxEvents
    /\ \E label \in Labels, file \in Files, out \in NetOutcomes,
          l1, q1, l2, q2 \in WriteOutcomes :
         LET t == now + 1
             photoData == compressImage(file)
             resp == IF online THEN PageFetch("POST", out) ELSE NoResponse
             first == PhotoOfflineSave(db, projectId, photoData, label, t, l1, q1)
             caught == IF online THEN ~ResultSuccess(resp) ELSE ~first.done
             dbTry == IF online THEN db ELSE first.db
             second == PhotoOfflineSave(dbTry, projectId, photoData, label, t, l2, q2)
         IN  /\ now' = t
             /\ server' = IF online
                          THEN ServerAfter(server, out, "POST", PhotoEndpoint(projectId),
                                           PhotoPayload(photoData, label, t))
                          ELSE server
             /\ db' = IF caught THEN second.db ELSE dbTry
             /\ projectData' =
                  IF ~caught
                  THEN PushPhoto(projectData,
                                 IF online THEN <<"photo_id", t>> ELSE <<"now", t>>,
                                 label, photoData)
                  ELSE IF second.done
                  THEN PushPhoto(projectData, <<"now", t>>, label, photoData)
                  ELSE projectData
             /\ lastSubmit' = Submit("handlePhotoCapture", t, IF online THEN out ELSE "none", resp)
             /\ accepted' = IF online /\ out \in {"ok", "lostack"}
                            THEN accepted \cup {t} ELSE accepted
    /\ UNCHANGED <<online, isOffline, controlled, page, projectId, visitState,
                   drains, runs, acked, owed,
                   caches, lastFetch, worker, prefetch>>

saveNotes ==
    /\ page = "visit"
    /\ now + runs < MaxEvents
    /\ \E text \in NoteTexts, out \in NetOutcomes, l1, q1, l2, q2 \in WriteOutcomes :
         LET t == now + 1
             pd == [projectData EXCEPT !.notes = text]
             resp == IF online THEN PageFetch("PUT", out) ELSE NoResponse
             first == ProjectOfflineSave(db, projectId, pd, t, l1, q1)
             caught == IF online THEN resp.thrown ELSE ~first.done
             dbTry == IF online THEN db ELSE first.db
             pdTry == IF online THEN pd ELSE first.pd
             second == ProjectOfflineSave(dbTry, projectId, pdTry, t, l2, q2)
         IN  /\ now' = t
             /\ server' = IF online
                          THEN ServerAfter(server, out, "PUT", ProjectEndpoint(projectId), pd)
                          ELSE server
             /\ db' = IF caught THEN second.db ELSE dbTry
             /\ projectData' = IF caught THEN second.pd ELSE pdTry
             /\ lastSubmit' = Submit("saveNotes", t, IF online THEN out ELSE "none", resp)
             /\ accepted' = IF online /\ out \in {"ok", "lostack"}
                            THEN accepted \cup {t} ELSE accepted
    /\ UNCHANGED <<online, isOffline, controlled, page, projectId, visitState,
                   drains, runs, acked, owed,
                   caches, lastFetch, worker, prefetch>>

saveProgress ==
    /\ page = "visit"
    /\ now + runs < MaxEvents
    /\ \E out \in NetOutcomes :
         LET t == now + 1
             resp == PageFetch("PUT", out)
         IN  /\ now' = t
             /\ visitState' = t
             /\ server' = ServerAfter(server, out, "PUT", ProjectEndpoint(projectId),
                                      projectData)
             /\ lastSubmit' = Submit("saveProgress", t, out, resp)
             /\ accepted' = IF out \in {"ok", "lostack"} THEN accepted \cup {t} ELSE accepted
    /\ UNCHANGED <<online, isOffline, controlled, page, projectId, projectData, db,
                   drains, runs, acked, owed,
                   caches, lastFetch, worker, prefetch>>

\* completeVisit, confirmed by the user. When the fetch resolves the page
\* navigates to '/', which ends the visit page (beforeunload saves the form).
completeVisit ==
    /\ page = "visit"
    /\ now + runs < MaxEvents
    /\ \E out \in NetOutcomes :
         LET t == now + 1
             pd == SetField([projectData EXCEPT !.status = "complete"],
                            "completed", ToISOString(t))
             resp == PageFetch("PUT", out)
         IN  /\ now' = t
             /\ projectData' = pd
             /\ server' = ServerAfter(server, out, "PUT", ProjectEndpoint(projectId), pd)
             /\ page' = IF resp.thrown THEN "visit" ELSE "left"
             /\ visitState' = IF resp.thrown THEN visitState ELSE t
             /\ lastSubmit' = Submit("completeVisit", t, out, resp)
             /\ accepted' = IF out \in {"ok", "lostack"} THEN accepted \cup {t} ELSE accepted
    /\ UNCHANGED <<online, isOffline, controlled, projectId, db, drains, runs, acked, owed,
                   caches, lastFetch, worker, prefetch>>

\* ------------------------------------------------------------- service worker
CACHE_NAME == "field-app-v1"
TILE_CACHE == "map-tiles-v1"
DATA_CACHE == "project-data-v1"
CurrentCaches == {CACHE_NAME, TILE_CACHE, DATA_CACHE}

\* Caches an earlier version of the worker left behind.
OldCaches == {"field-app-v0", "map-tiles-v0"}

TileHosts == {"tile.openstreetmap.org", "server.arcgisonline.com"}

Url(host, path) == [host |-> host, path |-> path]
TileUrl == Url("tile.openstreetmap.org", <<"18", "1", "1.png">>)
ProjectUrl(pid) == Url("origin", <<"api", "projects", pid>>)
StyleUrl == Url("origin", <<"static", "css", "style.css">>)
VisitUrl(pid) == Url("origin", <<"visit", pid>>)
RootUrl == Url("origin", <<>>)
Urls == {TileUrl, StyleUrl, RootUrl} \cup {ProjectUrl(pid) : pid \in Projects}
          \cup {VisitUrl(pid) : pid \in Projects}

\* A request: html tells whether its Accept header includes text/html.
Request(url, method, html) == [url |-> url, method |-> method, html |-> html]

GetRequests ==
    {Request(TileUrl, "GET", FALSE), Request(StyleUrl, "GET", FALSE),
     Request(RootUrl, "GET", TRUE)}
      \cup {Request(ProjectUrl(pid), "GET", FALSE) : pid \in Projects}
      \cup {Request(VisitUrl(pid), "GET", TRUE) : pid \in Projects}

\* Requests with another method: the project update of the visit page, a
\* form post to a page of the origin and a post to a tile host.
MutationRequests ==
    {Request(ProjectUrl(pid), "PUT", FALSE) : pid \in Projects}
      \cup {Request(VisitUrl(pid), "POST", TRUE) : pid \in Projects}
      \cup {Request(TileUrl, "POST", FALSE)}

IsTile(url) == url.host \in TileHosts
IsApi(url) == Len(url.path) >= 1 /\ url.path[1] = "api"

\* A cache maps the urls it has an entry for to the entry's response.
EmptyCache == [u \in {} |-> Thrown]

\* cache.match(request): <<>> or <<response>>; a request whose method is not
\* GET matches nothing.
CacheMatch(cache, req) ==
    IF req.method = "GET" /\ req.url \in DOMAIN cache THEN <<cache[req.url]>> ELSE <<>>

\* cache.put(request, response): rejects, storing nothing, for a request
\* whose method is not GET.
CachePutAnyMethod(cache, req, resp) ==
    [u \in DOMAIN cache \cup {req.url} |-> IF u = req.url THEN resp ELSE cache[u]]

CachePut(cache, req, resp) ==
    IF req.method # "GET" THEN cache
    ELSE [u \in DOMAIN cache \cup {req.url} |-> IF u = req.url THEN resp ELSE cache[u]]

\* caches.open(name): the cache of that name, created empty when missing.
OpenCache(c, name) == IF name \in DOMAIN c THEN c[name] ELSE EmptyCache

\* Cache Storage after caches.open(name).
Opened(c, name) == [k \in DOMAIN c \cup {name} |-> OpenCache(c, k)]

\* Cache Storage after caches.open(name).then(cache => cache.put(req, resp)).
PutIn(c, name, req, resp) ==
    [k \in DOMAIN c \cup {name} |->
        IF k = name THEN CachePut(OpenCache(c, name), req, resp) ELSE c[k]]

EmptyCaches == [k \in CurrentCaches |-> EmptyCache]

\* The caches after install: cache.addAll(APP_FILES) into the app-shell cache.
InstalledCaches ==
    PutIn(PutIn(EmptyCaches, CACHE_NAME, Request(RootUrl, "GET", TRUE),
                Response(TRUE, "server")),
          CACHE_NAME, Request(StyleUrl, "GET", FALSE), Response(TRUE, "server"))

\* The caches a newly installed version finds before it activates: its own
\* app-shell cache, the tile and data caches and what the version before left.
UpgradeCaches ==
    [k \in CurrentCaches \cup OldCaches |->
        IF k = "field-app-v0"
        THEN CachePut(EmptyCache, Request(RootUrl, "GET", TRUE), Response(TRUE, "server"))
        ELSE IF k = TILE_CACHE
        THEN CachePut(EmptyCache, Request(TileUrl, "GET", FALSE), Response(TRUE, "server"))
        ELSE OpenCache(InstalledCaches, k)]

\* caches.match(request): the first entry for the request in any cache.
CachesMatchAny(c, req) ==
    LET hits == {k \in DOMAIN c : CacheMatch(c[k], req) # <<>>}
        first == IF CACHE_NAME \in hits THEN CACHE_NAME
                 ELSE IF TILE_CACHE \in hits THEN TILE_CACHE
                 ELSE IF DATA_CACHE \in hits THEN DATA_CACHE
                 ELSE CHOOSE k \in hits : TRUE
    IN  IF hits = {} THEN <<>> ELSE CacheMatch(c[first], req)

\* What the network does with a request: a response, or fetch rejects.
NetResponse(out, resource) ==
    CASE out = "ok" -> [Response(TRUE, "server") EXCEPT !.json = resource]
      [] out = "rejected" -> Response(FALSE, "server")
      [] OTHER -> Thrown

\* respondWith() given a promise that resolves with undefined.
Undefined == [thrown |-> FALSE, ok |-> FALSE, body |-> "undefined", json |-> <<>>]

\* What a 'fetch' listener run did: the response passed to respondWith, the
\* caches after it, whether it called fetch(event.request) and where the
\* response came from ("cache", "network" or "made" by the worker).
Answer(resp, c, fetched, source) ==
    [response |-> resp, caches |-> c, fetched |-> fetched, source |-> source]

\* The tile branch of the 'fetch' listener.
TileBranchWithoutCatch(c, req, net) ==
    LET cached == CacheMatch(OpenCache(c, TILE_CACHE), req)
    IN  IF cached # <<>>
        THEN Answer(cached[1], Opened(c, TILE_CACHE), FALSE, "cache")
        ELSE IF net.thrown
        THEN Answer(Thrown, Opened(c, TILE_CACHE), TRUE, "network")
        ELSE Answer(net, PutIn(c, TILE_CACHE, req, net), TRUE, "network")

TileBranch(c, req, net) ==
    LET cached == CacheMatch(OpenCache(c, TILE_CACHE), req)
    IN  IF cached # <<>>
        THEN Answer(cached[1], Opened(c, TILE_CACHE), FALSE, "cache")
        ELSE IF net.thrown
        THEN Answer(Response(FALSE, "placeholder"), Opened(c, TILE_CACHE), TRUE, "made")
        ELSE Answer(net, PutIn(c, TILE_CACHE, req, net), TRUE, "network")

\* The /api/ branch of the 'fetch' listener.
ApiBranchCacheFirst(c, req, net) ==
    LET cached == CachesMatchAny(c, req)
    IN  IF cached # <<>> THEN Answer(cached[1], c, FALSE, "cache")
        ELSE IF net.thrown THEN Answer(Response(TRUE, "offline_marker"), c, TRUE, "made")
        ELSE Answer(net, PutIn(c, DATA_CACHE, req, net), TRUE, "network")

ApiBranch(c, req, net) ==
    IF ~net.thrown
    THEN Answer(net,
                IF req.method = "GET" /\ net.ok THEN PutIn(c, DATA_CACHE, req, net) ELSE c,
                TRUE, "network")
    ELSE LET cached == CachesMatchAny(c, req)
         IN  IF cached # <<>>
             THEN Answer(cached[1], c, TRUE, "cache")
             ELSE Answer(Response(TRUE, "offline_marker"), c, TRUE, "made")

\* The branch of the 'fetch' listener for everything else.
DefaultBranch(c, req, net) ==
    LET cached == CachesMatchAny(c, req)
    IN  IF cached # <<>>
        THEN Answer(cached[1], c, FALSE, "cache")
        ELSE IF ~net.thrown
        THEN Answer(net,
                    IF net.ok /\ req.method = "GET" THEN PutIn(c, CACHE_NAME, req, net)
                    ELSE c,
                    TRUE, "network")
        ELSE IF req.html
        THEN LET root == CachesMatchAny(c, Request(RootUrl, "GET", TRUE))
             IN  IF root # <<>> THEN Answer(root[1], c, TRUE, "cache")
                 ELSE Answer(Undefined, c, TRUE, "made")
        ELSE Answer(Response(FALSE, "Offline"), c, TRUE, "made")

\* The 'fetch' listener. net is what fetch(event.request) does if the
\* listener calls it.
SWFetch(c, req, net) ==
    IF IsTile(req.url) THEN TileBranch(c, req, net)
    ELSE IF IsApi(req.url) THEN ApiBranch(c, req, net)
    ELSE DefaultBranch(c, req, net)

\* What the server holds for a url at the time of a request: the project, as
\* this client or another one left it, or one of two versions of a file.
Contents(req) ==
    IF IsApi(req.url)
    THEN {<<server.project>>, <<[server.project EXCEPT !.status = "complete"]>>}
    ELSE {<<"v1">>, <<"v2">>}

NoFetch ==
    [req |-> <<>>, out |-> "none", response |-> NoResponse, fetched |-> FALSE,
     source |-> "none", latestOk |-> [u \in Urls |-> <<>>]]

\* downloadProjectForOffline, run from the project list in another tab: GET
\* the project, then saveProjectLocal(await response.json()). response.ok is
\* not looked at; a body that is no project has no id, so the put throws, and
\* a rejected fetch is caught: both return false and store nothing.
downloadProjectForOffline ==
    /\ now + runs < MaxEvents
    /\ \E pid \in Projects, out \in NetOutcomes, w \in WriteOutcomes :
        LET t == now + 1
            req == Request(ProjectUrl(pid), "GET", FALSE)
            net == NetResponse(out, <<server.project>>)
            r == IF controlled THEN SWFetch(caches, req, net)
                 ELSE Answer(net, caches, TRUE, "network")
            resp == r.response
            hasProject == ~resp.thrown /\ resp.json # <<>>
        IN  /\ now' = t
            /\ caches' = r.caches
            /\ db' = IF hasProject /\ w THEN saveProjectLocal(db, resp.json[1], t)
                      ELSE db
    /\ UNCHANGED <<online, isOffline, controlled, page, projectId, projectData,
                   visitState, server, drains, runs, lastSubmit, accepted,
                   acked, owed, lastFetch, worker, prefetch>>

\* A request of the controlled page reaching the 'fetch' listener of the
\* active worker.
FetchEvent ==
    /\ controlled
    /\ worker = "activated"
    /\ \E req \in GetRequests \cup MutationRequests, out \in NetOutcomes :
        \E content \in Contents(req) :
         LET net == NetResponse(out, content)
             r == SWFetch(caches, req, net)
             fresh == r.fetched /\ ~net.thrown /\ net.ok /\ req.method = "GET"
         IN  /\ caches' = r.caches
             /\ lastFetch' = [req |-> <<req>>, out |-> out, response |-> r.response,
                              fetched |-> r.fetched, source |-> r.source,
                              latestOk |-> IF fresh
                                           THEN [lastFetch.latestOk EXCEPT ![req.url] = <<net>>]
                                           ELSE lastFetch.latestOk]
    /\ UNCHANGED <<online, isOffline, controlled, page, projectId, projectData,
                   visitState, now, db, server, drains, runs, lastSubmit, accepted,
                   acked, owed, worker, prefetch>>

\* The caches that survive the 'activate' listener: it deletes every cache
\* whose name is none of CACHE_NAME, TILE_CACHE and DATA_CACHE.
PurgeAllButAppShell(c) == [k \in DOMAIN c \cap {CACHE_NAME} |-> c[k]]

Purge(c) == [k \in DOMAIN c \cap CurrentCaches |-> c[k]]

\* The 'activate' event of a newly installed worker; clients.claim() makes
\* it the controller of the open pages.
ActivateEvent ==
    /\ worker = "installed"
    /\ caches' = Purge(caches)
    /\ worker' = "activated"
    /\ controlled' = TRUE
    /\ UNCHANGED <<online, isOffline, page, projectId, projectData, visitState, now,
                   db, server, drains, runs, lastSubmit, accepted, acked, owed,
                   lastFetch, prefetch>>

\* The run of cacheTilesForArea: pc is "idle", "loop" (in the for loop, about
\* to fetch urls[i]), "report" (after the loop) or "done".
IdlePrefetch ==
    [pc |-> "idle", bounds |-> <<>>, maxZoom |-> 0, urls |-> <<>>, i |-> 1,
     cached |-> 0, reported |-> <<>>]

\* Bounding boxes, in thousandths of a degree, with south <= north and
\* west <= east.
Lats == {39000, 39004}
Lngs == {-105008, -105004, -105000}
Boxes ==
    {[south |-> s, west |-> w, north |-> n, east |-> e] :
        <<s, n>> \in {p \in Lats \X Lats : p[1] <= p[2]},
        <<w, e>> \in {p \in Lngs \X Lngs : p[1] <= p[2]}}

\* floor((1 - ln(tan(lat) + 1/cos(lat)) / PI) / 2 * 2^20) for the latitudes
\* of Lats; the row at a lower zoom is this row divided by 2^(20 - zoom).
MercatorRow(lat) == IF lat = 39000 THEN 400743 ELSE 400728

\* latLngToTile: x is floor((lng + 180) / 360 * 2^zoom), computed here as
\* ((lng + 180000) * 2^zoom) / 360000 with 64 cancelled from both.
latLngToTile(lat, lng, zoom) ==
    [x |-> ((lng + 180000) * 2^(zoom - 6)) \div 5625,
     y |-> MercatorRow(lat) \div 2^(20 - zoom)]

\* `${baseUrl}/${z}/${y}/${x}`
PrefetchUrl(z, y, x) ==
    Url("server.arcgisonline.com", <<ToString(z), ToString(y), ToString(x)>>)

\* Number of iterations of for (let v = lo; v <= hi; v++).
Iterations(lo, hi) == IF hi >= lo THEN hi - lo + 1 ELSE 0

\* The urls the two inner loops of getTileUrls push for zoom z.
ZoomUrlsExclusive(bounds, z) ==
    LET minTile == latLngToTile(bounds.south, bounds.west, z)
        maxTile == latLngToTile(bounds.north, bounds.east, z)
        w == Iterations(minTile.x, maxTile.x - 1)
        h == Iterations(maxTile.y, minTile.y)
    IN  [k \in 1..(w * h) |->
            PrefetchUrl(z, maxTile.y + ((k - 1) % h), minTile.x + ((k - 1) \div h))]

ZoomUrls(bounds, z) ==
    LET minTile == latLngToTile(bounds.south, bounds.west, z)
        maxTile == latLngToTile(bounds.north, bounds.east, z)
        w == Iterations(minTile.x, maxTile.x)
        h == Iterations(maxTile.y, minTile.y)
    IN  [k \in 1..(w * h) |->
            PrefetchUrl(z, maxTile.y + ((k - 1) % h), minTile.x + ((k - 1) \div h))]

RECURSIVE UrlsFromZoom(_, _, _)
UrlsFromZoom(bounds, z, maxZoom) ==
    IF z > maxZoom THEN <<>>
    ELSE ZoomUrls(bounds, z) \o UrlsFromZoom(bounds, z + 1, maxZoom)

getTileUrls(bounds, maxZoom) == UrlsFromZoom(bounds, MinZoom, maxZoom)

\* The 'message' listener receiving {type: 'cache-tiles', bounds, zoom}:
\* cacheTilesForArea opens the tile cache and enumerates the tiles.
CacheTilesMessage ==
    /\ controlled
    /\ worker = "activated"
    /\ prefetch.pc = "idle"
    /\ \E b \in Boxes, zoom \in (MinZoom - 1)..MaxZoomInput :
        LET urls == getTileUrls(b, zoom)
        IN  prefetch' = [IdlePrefetch EXCEPT !.pc = IF urls = <<>> THEN "report" ELSE "loop",
                                             !.bounds = <<b>>, !.maxZoom = zoom,
                                             !.urls = urls]
    /\ caches' = Opened(caches, TILE_CACHE)
    /\ UNCHANGED <<online, isOffline, controlled, page, projectId, projectData,
                   visitState, now, db, server, drains, runs, lastSubmit, accepted,
                   acked, owed, lastFetch, worker>>

\* One iteration of the loop of cacheTilesForArea over its urls: the run and
\* the caches after it. net is what fetch(url) does.
TileAttemptAbortsOnThrow(pf, c, net) ==
    LET url == pf.urls[pf.i]
        stored == ~net.thrown /\ net.ok
        last == pf.i = Len(pf.urls) \/ net.thrown
    IN  [prefetch |-> [pf EXCEPT !.i = IF net.thrown THEN @ ELSE @ + 1,
                                 !.cached = IF stored THEN @ + 1 ELSE @,
                                 !.pc = IF last THEN "report" ELSE "loop"],
         caches |-> IF stored THEN PutIn(c, TILE_CACHE, Request(url, "GET", FALSE), net)
                    ELSE c]

TileAttempt(pf, c, net) ==
    LET url == pf.urls[pf.i]
        stored == ~net.thrown /\ net.ok
        last == pf.i = Len(pf.urls)
    IN  [prefetch |-> [pf EXCEPT !.i = @ + 1,
                                 !.cached = IF stored THEN @ + 1 ELSE @,
                                 !.pc = IF last THEN "report" ELSE "loop"],
         caches |-> IF stored THEN PutIn(c, TILE_CACHE, Request(url, "GET", FALSE), net)
                    ELSE c]

PrefetchIteration ==
    /\ prefetch.pc = "loop"
    /\ \E out \in NetOutcomes :
        LET r == TileAttempt(prefetch, caches, NetResponse(out, <<>>))
        IN  /\ prefetch' = r.prefetch
            /\ caches' = r.caches
    /\ UNCHANGED <<online, isOffline, controlled, page, projectId, projectData,
                   visitState, now, db, server, drains, runs, lastSubmit, accepted,
                   acked, owed, lastFetch, worker>>

\* After the loop: postMessage({type: 'tiles-cached', count, total}) to the
\* worker's clients.
PrefetchReport ==
    /\ prefetch.pc = "report"
    /\ prefetch' = [prefetch EXCEPT !.pc = "done",
                                    !.reported = <<[count |-> prefetch.cached,
                                                    total |-> Len(prefetch.urls)]>>]
    /\ UNCHANGED <<online, isOffline, controlled, page, projectId, projectData,
                   visitState, now, db, server, drains, runs, lastSubmit, accepted,
                   acked, owed, caches, lastFetch, worker>>

\* ------------------------------------------------------------- specification
EmptyProject(pid) ==
    [id |-> pid, status |-> "in_progress", notes |-> "none", gps_points |-> <<>>,
     photos |-> <<>>]

\* The database as initOfflineDB creates it. full tells whether the origin's
\* storage quota is used up, so that writes can fail.
EmptyDB(full) ==
    [projects |-> {}, gps_points |-> {}, photos |-> {}, sync_queue |-> {},
     boundaries |-> {},
     keygen |-> [gps_points |-> 0, photos |-> 0, sync_queue |-> 0],
     full |-> full]

\* The state once the visit page has loaded: ctl tells whether the service
\* worker controls it, d is the database and c the Cache Storage it finds.
InitState(ctl, d, c) ==
    /\ online \in BOOLEAN
    /\ isOffline = ~online
    /\ controlled = ctl
    /\ page = "visit"
    /\ projectId \in Projects
    /\ projectData = EmptyProject(projectId)
    /\ visitState = 0
    /\ now = 0
    /\ db = d
    /\ server = [gps |-> EmptyBag, photos |-> EmptyBag, project |-> EmptyProject(projectId)]
    /\ drains = [r \in 1..MaxEvents |-> IdleDrain]
    /\ runs = 0
    /\ lastSubmit = Submit("none", 0, "none", NoResponse)
    /\ accepted = {}
    /\ acked = [applied |-> {}, delivered |-> {}]
    /\ owed = {}
    /\ caches = c
    /\ lastFetch = NoFetch
    /\ worker = IF DOMAIN c \subseteq CurrentCaches THEN "activated" ELSE "installed"
    /\ prefetch = IdlePrefetch

Init ==
    \E ctl \in BOOLEAN :
        InitState(ctl, EmptyDB(FALSE), IF ctl THEN InstalledCaches ELSE EmptyCaches)

Next ==
    \/ OnlineEvent
    \/ OfflineEvent
    \/ DoSyncMessage
    \/ \E r \in 1..MaxEvents : DrainIteration(r)
    \/ saveGPSPoint
    \/ savePinFromPopup
    \/ handlePhotoCapture
    \/ saveNotes
    \/ saveProgress
    \/ completeVisit

Spec == Init /\ [][Next]_vars

\* The queue and its drain: the connectivity events and the drain, with the
\* handlers that put POST and PUT entries on the queue.
DrainNext ==
    \/ OnlineEvent
    \/ OfflineEvent
    \/ DoSyncMessage
    \/ \E r \in 1..MaxEvents : DrainIteration(r)
    \/ saveGPSPoint
    \/ saveNotes

DrainSpec == Init /\ [][DrainNext]_vars

\* Reconnection: points are captured, connectivity comes and goes, and the
\* queue is drained by the 'online' listeners.
ReconnectNext ==
    \/ OnlineEvent
    \/ OfflineEvent
    \/ \E r \in 1..MaxEvents : DrainIteration(r)
    \/ saveGPSPoint

\* The page's event loop runs the pending continuations of the drains: while
\* some drain has an iteration to run, one is run.
FairDrainSpec ==
    /\ Init
    /\ [][ReconnectNext]_vars
    /\ WF_vars(\E r \in 1..MaxEvents : DrainIteration(r))

\* The gps_points and photos collections: the captures, the project download
\* run from the project list, the connectivity events and the drain.
StoreNext ==
    \/ saveGPSPoint
    \/ handlePhotoCapture
    \/ downloadProjectForOffline
    \/ OnlineEvent
    \/ OfflineEvent
    \/ \E r \in 1..MaxEvents : DrainIteration(r)

StoreSpec == Init /\ [][StoreNext]_vars

\* The projects collection: the handler that puts the project, the project
\* download, the connectivity events and the drain.
ProjectNext ==
    \/ saveNotes
    \/ downloadProjectForOffline
    \/ OnlineEvent
    \/ OfflineEvent
    \/ \E r \in 1..MaxEvents : DrainIteration(r)

ProjectSpec == Init /\ [][ProjectNext]_vars

\* The visit page on a device whose storage quota is used up: the handlers
\* that write to the local store, the connectivity events and the drain.
StorageInit ==
    \E ctl \in BOOLEAN :
        InitState(ctl, EmptyDB(TRUE), IF ctl THEN InstalledCaches ELSE EmptyCaches)

StorageNext ==
    \/ saveGPSPoint
    \/ handlePhotoCapture
    \/ saveNotes
    \/ OnlineEvent
    \/ OfflineEvent
    \/ \E r \in 1..MaxEvents : DrainIteration(r)

StorageSpec == StorageInit /\ [][StorageNext]_vars

\* The service worker answering the GETs of a page it controls. Cache Storage
\* starts as install left it, or empty after the site's caches were cleared
\* while the worker stayed registered.
SWInit ==
    \E c \in {InstalledCaches, EmptyCaches, UpgradeCaches} :
        InitState(TRUE, EmptyDB(FALSE), c)

SWNext ==
    \/ ActivateEvent
    \/ FetchEvent
    \/ OnlineEvent
    \/ OfflineEvent

SWSpec == SWInit /\ [][SWNext]_vars

\* The tile prefetch of the active worker, asked for by the page it controls.
TilesInit == InitState(TRUE, EmptyDB(FALSE), InstalledCaches)

TilesNext ==
    \/ CacheTilesMessage
    \/ PrefetchIteration
    \/ PrefetchReport

TilesSpec == TilesInit /\ [][TilesNext]_vars

\* The worker's event loop resumes each await of cacheTilesForArea.
FairTilesSpec ==
    TilesSpec /\ WF_vars(PrefetchIteration) /\ WF_vars(PrefetchReport)

\* ------------------------------------------------------------- properties
QueueIds == {e.id : e \in db.sync_queue}

\* The ids the queue's key generator has handed out.
EnqueuedIds == 1..db.keygen.sync_queue

\* Number of times the drains put entry id on the network.
RECURSIVE SubmitCountUpTo(_, _)
SubmitCountUpTo(id, r) ==
    IF r = 0 THEN 0
    ELSE Cardinality({k \in 1..Len(drains[r].sent) : drains[r].sent[k] = id})
           + SubmitCountUpTo(id, r - 1)

SubmitCount(id) == SubmitCountUpTo(id, MaxEvents)

Attempted(id) == \E r \in 1..MaxEvents : id \in Range(drains[r].sent)

EntriesFor(d, t) == {e \in d.sync_queue : e.timestamp = t}

\* The record the local store keeps of the mutation made at clock value t.
HasLocalWrite(d, op, t) ==
    CASE op \in {"saveGPSPoint", "savePinFromPopup"} ->
           \E rec \in d.gps_points : rec.timestamp = t
      [] op = "handlePhotoCapture" -> \E rec \in d.photos : rec.timestamp = t
      [] OTHER -> \E p \in d.projects : p.lastModified = t

FailedSubmits == {"rejected", "neterr", "lostack"}

\* Number of GPS points the server recorded that were captured at clock value t.
RECURSIVE BagCount(_, _)
BagCount(B, S) ==
    IF S = {} THEN 0
    ELSE LET x == CHOOSE y \in S : TRUE IN B[x] + BagCount(B, S \ {x})

ServerGpsCopies(t) ==
    BagCount(server.gps, {p \in BagToSet(server.gps) : p.timestamp = ToISOString(t)})

\* C1: drains that overlap never submit the same queue entry twice: no entry
\* id is put on the network both by a drain and by a drain that was in its
\* loop when that drain began.
C1_NoDoubleSubmission ==
    \A r2 \in 1..MaxEvents : \A r1 \in drains[r2].overlaps :
        Range(drains[r1].sent) \cap Range(drains[r2].sent) = {}

\* C2: a queue entry is removed if and only if the server acknowledged it:
\* every entry that left the queue was applied by the server, and every entry
\* whose 2xx acknowledgment was delivered has left the queue (an iteration
\* whose delete failed counts as failed, so that case is set aside).
C2_RemovedIffAcknowledged ==
    \A id \in EnqueuedIds :
        /\ (id \notin QueueIds => id \in acked.applied)
        /\ ((\A r \in 1..MaxEvents : drains[r].failed = 0) /\ id \in acked.delivered
              => id \notin QueueIds)

\* C3: when the network attempt of a mutation request fails, the handler that
\* made it observes a rejected fetch or a non-ok response.
C3_MutationFailurePropagates ==
    lastSubmit.net \in {"neterr", "lostack"} =>
        (lastSubmit.resp.thrown \/ ~lastSubmit.resp.ok)

\* C4: when a mutation handler's submit fails (thrown network error or non-ok
\* response), then as the handler returns the mutation is in the local store
\* and the queue holds an entry for it.
C4_FailedSubmitKeepsData ==
    [][(now' # now /\ lastSubmit'.net \in FailedSubmits) =>
          (/\ HasLocalWrite(db', lastSubmit'.op, now')
           /\ EntriesFor(db', now') # {})]_vars

\* C5: every mutation the server has not applied has exactly one queue entry,
\* and no mutation ever has two.
C5_ExactlyOneEntry ==
    \A t \in 1..now :
        /\ Cardinality(EntriesFor(db, t)) <= 1
        /\ (t \notin accepted => Cardinality(EntriesFor(db, t)) = 1)

\* C7: a GPS point captured offline is one local record and one queue entry;
\* once connectivity is back and the drains have run with no request failing,
\* the queue holds no entry for it and the server recorded exactly one POST of it.
C7_OfflineCaptureOnePost ==
    (lastSubmit.op = "saveGPSPoint" /\ lastSubmit.net = "none") =>
        LET t == lastSubmit.t
        IN  /\ Cardinality({rec \in db.gps_points : rec.timestamp = t}) = 1
            /\ (~(\E e \in EntriesFor(db, t) : Attempted(e.id)) /\ InFlight = {}
                  => Cardinality(EntriesFor(db, t)) <= 1)
            /\ ((/\ online
                 /\ InFlight = {}
                 /\ EntriesFor(db, t) = {}
                 /\ \A r \in 1..MaxEvents : drains[r].failed = 0)
                  => ServerGpsCopies(t) = 1)

\* C8: an entry's attempts counter equals the number of failed attempts made
\* on it: every attempt on an entry that is still queued has failed.
C8_AttemptsCountsFailures ==
    \A e \in db.sync_queue : e.attempts = SubmitCount(e.id)

\* The fetches of one invocation go out in strictly ascending order of entry id.
SentAscending(dr) ==
    \A j, k \in 1..Len(dr.sent) : j < k => dr.sent[j] < dr.sent[k]

\* C6: every entry that is queued when the client goes online is attempted on
\* the network, and each drain issues its attempts in ascending order of entry
\* id, one attempt per entry.
C6_QueuedEntriesAttemptedFIFO ==
    /\ [](\A r \in 1..MaxEvents : SentAscending(drains[r]))
    /\ (owed # {}) ~> (\A id \in owed : Attempted(id))

C6_Witness ==
    /\ Cardinality(owed) >= 2
    /\ \A id \in owed : Attempted(id)
    /\ \E r \in 1..MaxEvents : owed \subseteq Range(drains[r].sent)

\* The ids of the first n entries of a drain's snapshot, in iteration order.
PendingIds(dr, n) == [k \in 1..n |-> dr.pending[k].id]

\* C9: a drain that starts online attempts every entry of the queue as it was
\* at its start exactly once, whatever happened to the entries before it.
C9_EveryEntryAttemptedOnce ==
    \A r \in 1..MaxEvents :
        LET dr == drains[r]
        IN  /\ \A j, k \in 1..Len(dr.pending) :
                   j # k => dr.pending[j].id # dr.pending[k].id
            /\ (dr.pc = "loop" => dr.sent = PendingIds(dr, dr.i - 1))
            /\ (dr.pc = "done" => dr.sent = PendingIds(dr, Len(dr.pending)))

C9_Witness ==
    \E r \in 1..MaxEvents :
        LET dr == drains[r]
        IN  /\ dr.pc = "done"
            /\ Len(dr.pending) = 2
            /\ dr.failed = 1
            /\ dr.synced = 1
            /\ dr.pending[1].id \in QueueIds
            /\ dr.pending[2].id \notin QueueIds

\* C10: a drain of an empty queue is a no-op: it puts nothing on the network,
\* changes nothing that is stored and reports synced = 0, failed = 0.
C10_DrainOnEmptyQueueIsNoOp ==
    [][\A r \in 1..MaxEvents :
          (drains[r].pc = "idle" /\ drains'[r].pc # "idle" /\ db.sync_queue = {}) =>
              /\ drains'[r].pc = "done"
              /\ drains'[r].synced = 0
              /\ drains'[r].failed = 0
              /\ drains'[r].sent = <<>>
              /\ db' = db
              /\ server' = server
              /\ projectData' = projectData
              /\ visitState' = visitState
              /\ accepted' = accepted
              /\ acked' = acked]_vars

C10_Witness ==
    \E r \in 1..(MaxEvents - 1) :
        /\ drains[r].trigger = "online-manager"
        /\ drains[r].pending = <<>>
        /\ drains[r].pc = "done"
        /\ drains[r + 1].pending = <<>>
        /\ drains[r + 1].pc = "done"
        /\ db.sync_queue = {}

\* The drain's caller showed a notification carrying both of its counts.
NotifiedOfCounts(dr) ==
    \E k \in 1..Len(dr.toast) :
        /\ {"synced", "failed"} \subseteq DOMAIN dr.toast[k]
        /\ dr.toast[k].synced = dr.synced
        /\ dr.toast[k].failed = dr.failed

\* C11: every drain started by a transition to online that attempted an entry
\* has, once it has returned, notified observers of both its synced count and
\* its failed count.
C11_OnlineDrainReportsCounts ==
    \A r \in 1..MaxEvents :
        (/\ drains[r].trigger \in {"online-manager", "online-visit"}
         /\ drains[r].pc = "done"
         /\ drains[r].sent # <<>>) => NotifiedOfCounts(drains[r])

\* C12: no drain happens while offline: the transition to offline starts no
\* invocation of syncPendingData, and an invocation made while the client is
\* offline returns at once with synced = 0 and failed = 0, having put nothing
\* on the network and left the queue and the server as they were.
C12_NoDrainWhileOffline ==
    [][/\ (online /\ ~online') => (runs' = runs /\ drains' = drains)
       /\ \A r \in 1..MaxEvents :
              (drains[r].pc = "idle" /\ drains'[r].pc # "idle" /\ ~online') =>
                  /\ drains'[r].pc = "done"
                  /\ drains'[r].sent = <<>>
                  /\ drains'[r].synced = 0
                  /\ drains'[r].failed = 0
                  /\ db'.sync_queue = db.sync_queue
                  /\ server' = server]_vars

\* The latest invocation was made by a 'do-sync' message while offline with an
\* entry in the queue that an earlier drain had already tried.
C12_Witness ==
    /\ ~online
    /\ runs >= 1
    /\ drains[runs].trigger = "do-sync"
    /\ drains[runs].pc = "done"
    /\ drains[runs].sent = <<>>
    /\ \E e \in db.sync_queue : \E r \in 1..(runs - 1) : e.id \in Range(drains[r].sent)

\* The ids of the entries that are or were in the queue: those in it now and
\* those a drain has put on the network.
EverQueuedIds == QueueIds \cup UNION {Range(drains[r].sent) : r \in 1..MaxEvents}

\* A sequence of queue entries in strictly ascending order of id.
AscendingIds(q) == \A j, k \in 1..Len(q) : j < k => q[j].id < q[k].id

\* C13: a step that enqueues adds exactly one entry, with attempts = 0 and an
\* id greater than the id of every entry that is or ever was in the queue, and
\* leaves the other entries as they were; the queue as a drain reads it is in
\* ascending order of id.
C13_EnqueueAppendsFreshEntry ==
    /\ [](/\ AscendingIds(getPendingSyncs(db))
          /\ \A r \in 1..MaxEvents : AscendingIds(drains[r].pending))
    /\ [][~(db'.sync_queue \subseteq db.sync_queue) =>
              \E e \in db'.sync_queue :
                  /\ e \notin db.sync_queue
                  /\ db'.sync_queue = db.sync_queue \cup {e}
                  /\ e.attempts = 0
                  /\ \A id \in EverQueuedIds : e.id > id]_vars

\* An entry was enqueued after an earlier entry had been drained and removed.
C13_Witness ==
    \E e \in db.sync_queue :
        /\ e.attempts = 0
        /\ \E id \in 1..(e.id - 1) : id \notin QueueIds /\ Attempted(id)

\* C14: an attempt that is not acknowledged, whether the server answered
\* non-ok or the request failed in transit, is counted as failed and leaves
\* the queue as it was, and every drain that starts online takes every entry
\* of the queue into its snapshot, however often the entry has failed before.
C14_RejectionRetriedLikeTransient ==
    [][\A r \in 1..MaxEvents :
          /\ (Len(drains'[r].sent) > Len(drains[r].sent)) =>
                 \/ /\ drains'[r].synced = drains[r].synced + 1
                    /\ drains'[r].failed = drains[r].failed
                 \/ /\ drains'[r].failed = drains[r].failed + 1
                    /\ drains'[r].synced = drains[r].synced
                    /\ db'.sync_queue = db.sync_queue
          /\ (drains[r].pc = "idle" /\ drains'[r].pc # "idle" /\ online') =>
                 {drains'[r].pending[k].id : k \in 1..Len(drains'[r].pending)} = QueueIds
      ]_vars

\* An entry the server has rejected in both drains of the 'online' event is
\* attempted again by a later drain and is still queued.
C14_Witness ==
    \E r \in 1..MaxEvents : \E id \in QueueIds :
        /\ drains[r].trigger = "do-sync"
        /\ id \in Range(drains[r].sent)
        /\ SubmitCount(id) >= 3
        /\ \A q \in 1..MaxEvents : drains[q].synced = 0
        /\ id \notin acked.applied

\* JavaScript's strict equality of two field values: a number and a string
\* are never equal.
SameValue(a, b) == ToString(a) = ToString(b)

\* The local gps_points record carries the in-memory point's value in every
\* field of the point.
SameFields(rec, point) ==
    \A f \in DOMAIN point : f \in DOMAIN rec /\ SameValue(rec[f], point[f])

\* C15: every record of the local gps_points collection is field for field
\* the point appended to the in-memory project at its capture, and every
\* queued GPS payload is such a point.
C15_LocalPointEqualsMemoryPoint ==
    /\ \A rec \in db.gps_points :
           \E k \in 1..Len(projectData.gps_points) :
               SameFields(rec, projectData.gps_points[k])
    /\ \A e \in db.sync_queue :
           e.endpoint.res = "gps" =>
               \E k \in 1..Len(projectData.gps_points) :
                   e.data = projectData.gps_points[k]

\* C16: a capture saved locally adds one record to gps_points and one entry
\* to the queue and leaves every earlier record and entry in place, also when
\* an earlier capture has the same coordinates; captures with distinct
\* timestamps are distinct records.
C16_CapturesPersistSeparately ==
    /\ [](\A r1, r2 \in db.gps_points :
             r1.timestamp # r2.timestamp => r1.localId # r2.localId)
    /\ [][db'.gps_points # db.gps_points =>
              /\ \E rec \in db'.gps_points :
                     /\ rec \notin db.gps_points
                     /\ db'.gps_points = db.gps_points \cup {rec}
              /\ Cardinality(db'.gps_points) = Cardinality(db.gps_points) + 1
              /\ \E e \in db'.sync_queue :
                     /\ e \notin db.sync_queue
                     /\ e.endpoint.res = "gps"
                     /\ db'.sync_queue = db.sync_queue \cup {e}
              /\ Cardinality(db'.sync_queue) = Cardinality(db.sync_queue) + 1]_vars

\* Two captures at the same coordinates and different times are two local
\* records and two queue entries.
C16_Witness ==
    \E r1, r2 \in db.gps_points : \E e1, e2 \in db.sync_queue :
        /\ r1.lat = r2.lat /\ r1.lon = r2.lon
        /\ r1.timestamp # r2.timestamp
        /\ e1.data.timestamp = ToISOString(r1.timestamp)
        /\ e2.data.timestamp = ToISOString(r2.timestamp)
        /\ e1.id # e2.id

\* C20: every GET the service worker intercepts is answered with a response
\* object, whatever the caches hold and whatever the network does: never with
\* a rejection and never with nothing.
C20_ReadsAlwaysAnswered ==
    lastFetch.req # <<>> =>
        (~lastFetch.response.thrown /\ lastFetch.response # Undefined)

\* Sequence a is an initial part of sequence b.
IsPrefix(a, b) == Len(a) <= Len(b) /\ \A k \in 1..Len(a) : b[k] = a[k]

\* C17: GPS points and photos are append-only: no step removes or changes a
\* record of the local gps_points or photos collection, and the in-memory
\* gps_points and photos sequences only grow at the end.
C17_PointsAndPhotosAppendOnly ==
    [][/\ db.gps_points \subseteq db'.gps_points
       /\ db.photos \subseteq db'.photos
       /\ IsPrefix(projectData.gps_points, projectData'.gps_points)
       /\ IsPrefix(projectData.photos, projectData'.photos)]_vars

\* A locally saved capture is still stored after a drain had its entry
\* acknowledged and removed and after the project was downloaded.
C17_Witness ==
    /\ db.projects # {}
    /\ \/ \E rec \in db.gps_points : \A e \in db.sync_queue : e.timestamp # rec.timestamp
       \/ \E rec \in db.photos : \A e \in db.sync_queue : e.timestamp # rec.timestamp
    /\ \E r \in 1..MaxEvents : drains[r].pc = "done" /\ drains[r].synced >= 1

\* C18: every put of a project into the local store writes synced = false and
\* lastModified = now, and the stored lastModified of a project never goes
\* down.
C18_ProjectPutStampsAndIsMonotonic ==
    [][\A p2 \in db'.projects \ db.projects :
          /\ p2.synced = FALSE
          /\ p2.lastModified = now'
          /\ \A p1 \in db.projects :
                 p1.id = p2.id => p1.lastModified <= p2.lastModified]_vars

\* The stored project was put again after an earlier put, whose older copy
\* is still queued.
C18_Witness ==
    \E p \in db.projects : \E e \in db.sync_queue :
        /\ e.endpoint.res = "project"
        /\ e.data.id = p.id
        /\ e.data.lastModified < p.lastModified
        /\ p.synced = FALSE

\* The mutation made at clock value t by handler op is in the in-memory project.
InMemory(pd, op, t) ==
    CASE op = "saveGPSPoint" ->
           \E k \in 1..Len(pd.gps_points) : pd.gps_points[k].timestamp = ToISOString(t)
      [] op = "handlePhotoCapture" ->
           \E k \in 1..Len(pd.photos) : pd.photos[k].id[2] = t
      [] OTHER -> pd.notes # "none"

\* The records the local store holds of the mutation made at clock value t.
LocalRecords(d, op, t) ==
    CASE op = "saveGPSPoint" -> {rec \in d.gps_points : rec.timestamp = t}
      [] op = "handlePhotoCapture" -> {rec \in d.photos : rec.timestamp = t}
      [] OTHER -> {rec \in d.projects : rec.lastModified = t}

\* C19: as saveGPSPoint, handlePhotoCapture or saveNotes returns, the
\* mutation is in the in-memory project state, also when a local write or
\* the enqueue failed, and the store holds no partial record of it: either
\* one local record and one queue entry, or neither.
C19_WriteFailureFallsBackToMemory ==
    [][(/\ now' # now
        /\ lastSubmit'.t = now'
        /\ lastSubmit'.op \in {"saveGPSPoint", "handlePhotoCapture", "saveNotes"}) =>
          LET n == Cardinality(LocalRecords(db', lastSubmit'.op, now'))
              q == Cardinality(EntriesFor(db', now'))
          IN  /\ InMemory(projectData', lastSubmit'.op, now')
              /\ n = q
              /\ n <= 1]_vars

\* A step in which the 'fetch' listener handled a request.
FetchStep == lastFetch' # lastFetch

\* The request the latest 'fetch' event was for.
FetchedRequest(f) == f.req[1]

\* C21: a request whose method is not GET is always put on the network and
\* leaves the entries of every cache as they were, so no cache ever holds a
\* response to a non-GET request; when it is a request under /api/ it is
\* never answered from a cache.
C21_MutationsPassThrough ==
    [][(FetchStep /\ FetchedRequest(lastFetch').method # "GET") =>
          /\ lastFetch'.fetched
          /\ IsApi(FetchedRequest(lastFetch').url) => lastFetch'.source # "cache"
          /\ \A k \in DOMAIN caches' : caches'[k] = OpenCache(caches, k)]_vars

\* A project update failed on the network while the data cache held the
\* response to a GET of the same url: the answer is the offline marker.
C21_Witness ==
    /\ lastFetch.req # <<>>
    /\ FetchedRequest(lastFetch).method = "PUT"
    /\ lastFetch.out = "neterr"
    /\ lastFetch.response.body = "offline_marker"
    /\ FetchedRequest(lastFetch).url \in DOMAIN caches[DATA_CACHE]

\* C22: a GET under /api/ is always put on the network first. An ok response
\* is what the page gets and is the data cache's entry for the request from
\* then on; when fetch rejects, the page gets the latest ok response the
\* network gave to that request, or the offline marker when there was none.
C22_ApiReadsNetworkFirst ==
    [][(/\ FetchStep
        /\ FetchedRequest(lastFetch').method = "GET"
        /\ IsApi(FetchedRequest(lastFetch').url)) =>
          LET req == FetchedRequest(lastFetch')
              before == lastFetch.latestOk[req.url]
          IN  /\ lastFetch'.fetched
              /\ lastFetch'.out = "ok" =>
                    /\ lastFetch'.response.ok /\ lastFetch'.source = "network"
                    /\ lastFetch'.latestOk[req.url] = <<lastFetch'.response>>
                    /\ CacheMatch(caches'[DATA_CACHE], req) = <<lastFetch'.response>>
              /\ lastFetch'.out \in {"neterr", "lostack"} =>
                    /\ lastFetch'.response =
                          IF before # <<>> THEN before[1]
                          ELSE Response(TRUE, "offline_marker")
                    /\ caches' = caches]_vars

\* The network failed for a GET of the project after the server's later
\* version of it had been fetched: the answer is that version, from the cache.
C22_Witness ==
    /\ lastFetch.req # <<>>
    /\ FetchedRequest(lastFetch).method = "GET"
    /\ IsApi(FetchedRequest(lastFetch).url)
    /\ lastFetch.out = "neterr"
    /\ lastFetch.source = "cache"
    /\ lastFetch.response.json # <<>>
    /\ lastFetch.response.json[1].status = "complete"

\* C23: a GET of a tile that is in the tile cache is answered with the cached
\* response and nothing is put on the network; on a miss the network's
\* response is what the page gets and is stored in the tile cache; on a miss
\* with a rejected fetch the page gets the placeholder response. The answer
\* is never a rejection.
C23_TilesCacheFirst ==
    [][(/\ FetchStep
        /\ FetchedRequest(lastFetch').method = "GET"
        /\ IsTile(FetchedRequest(lastFetch').url)) =>
          LET req == FetchedRequest(lastFetch')
              hit == CacheMatch(OpenCache(caches, TILE_CACHE), req)
              failed == lastFetch'.out \in {"neterr", "lostack"}
          IN  /\ ~lastFetch'.response.thrown
              /\ lastFetch'.response # Undefined
              /\ hit # <<>> =>
                    /\ lastFetch'.response = hit[1]
                    /\ ~lastFetch'.fetched
                    /\ caches' = caches
              /\ (hit = <<>> /\ ~failed) =>
                    /\ lastFetch'.fetched /\ lastFetch'.source = "network"
                    /\ lastFetch'.response.body = "server"
                    /\ lastFetch'.response.ok = (lastFetch'.out = "ok")
                    /\ CacheMatch(caches'[TILE_CACHE], req) = <<lastFetch'.response>>
              /\ (hit = <<>> /\ failed) =>
                    /\ lastFetch'.response = Response(FALSE, "placeholder")
                    /\ caches' = caches]_vars

\* A tile that was not cached was asked for while the network was down.
C23_Witness ==
    /\ lastFetch.req # <<>>
    /\ IsTile(FetchedRequest(lastFetch).url)
    /\ FetchedRequest(lastFetch).method = "GET"
    /\ lastFetch.out = "neterr"
    /\ lastFetch.response.body = "placeholder"
    /\ FetchedRequest(lastFetch).url \notin DOMAIN caches[TILE_CACHE]

\* C24: a GET of a static asset or a page that hits a cache is answered with
\* the cached response and is also put on the network, and an ok response of
\* the network replaces the cached copy, so a later request gets it.
C24_CacheFirstWithBackgroundRefresh ==
    [][(/\ FetchStep
        /\ FetchedRequest(lastFetch').method = "GET"
        /\ ~IsTile(FetchedRequest(lastFetch').url)
        /\ ~IsApi(FetchedRequest(lastFetch').url)
        /\ CachesMatchAny(caches, FetchedRequest(lastFetch')) # <<>>) =>
          LET req == FetchedRequest(lastFetch')
          IN  /\ lastFetch'.response = CachesMatchAny(caches, req)[1]
              /\ lastFetch'.fetched
              /\ lastFetch'.out = "ok" =>
                    CachesMatchAny(caches', req) = lastFetch'.latestOk[req.url]]_vars

ActivateStep == worker = "installed" /\ worker' = "activated"

\* C26: once the worker is activated Cache Storage holds no cache but the
\* current app-shell, tile and data caches, and activation leaves each of
\* those three in place with the entries it had.
C26_ActivationPurgesOldCaches ==
    /\ [](worker = "activated" => DOMAIN caches \subseteq CurrentCaches)
    /\ [][ActivateStep =>
            \A k \in CurrentCaches \cap DOMAIN caches :
                k \in DOMAIN caches' /\ caches'[k] = caches[k]]_vars

\* Activation has run over the caches of an upgrade: the tile that the tile
\* cache held before is still there and no fetch has been handled yet.
C26_Witness ==
    /\ worker = "activated"
    /\ lastFetch = NoFetch
    /\ TileUrl \in DOMAIN caches[TILE_CACHE]
    /\ RootUrl \in DOMAIN caches[CACHE_NAME]

\* The tiles of the rectangle that the tile indices of the south-west and
\* north-east corners span at zoom z.
Rectangle(bounds, z) ==
    LET sw == latLngToTile(bounds.south, bounds.west, z)
        ne == latLngToTile(bounds.north, bounds.east, z)
    IN  {PrefetchUrl(z, y, x) : x \in sw.x..ne.x, y \in ne.y..sw.y}

\* C27: the list a tile prefetch enumerates for a bounding box and a maximum
\* zoom holds, for each zoom level from 14 up to the maximum, every tile of
\* the rectangle spanned by the tile indices of the box's south-west and
\* north-east corners exactly once, and no other tile.
C27_TileListIsTheRectangles ==
    prefetch.pc # "idle" =>
        LET urls == prefetch.urls
            expected == UNION {Rectangle(prefetch.bounds[1], z) :
                                  z \in MinZoom..prefetch.maxZoom}
        IN  /\ {urls[k] : k \in 1..Len(urls)} = expected
            /\ Len(urls) = Cardinality(expected)

\* A prefetch over two zoom levels whose box spans more than one tile column
\* and more than one tile row at the higher level.
C27_Witness ==
    /\ prefetch.pc # "idle"
    /\ prefetch.maxZoom > MinZoom
    /\ LET sw == latLngToTile(prefetch.bounds[1].south, prefetch.bounds[1].west,
                              prefetch.maxZoom)
           ne == latLngToTile(prefetch.bounds[1].north, prefetch.bounds[1].east,
                              prefetch.maxZoom)
       IN  ne.x > sw.x /\ sw.y > ne.y
    /\ Len(prefetch.urls) > 4

\* The tiles of the list that are in the tile cache.
StoredTiles ==
    {k \in 1..Len(prefetch.urls) : prefetch.urls[k] \in DOMAIN OpenCache(caches, TILE_CACHE)}

\* C28: a tile prefetch, whatever each fetch of a tile does, goes through
\* the whole list, ends, and reports count and total with total the length of
\* the list, count the number of tiles it stored and 0 <= count <= total;
\* both are 0 when the maximum zoom is below 14.
C28_PrefetchAlwaysReports ==
    /\ [](prefetch.pc \in {"report", "done"} => prefetch.i = Len(prefetch.urls) + 1)
    /\ [](prefetch.pc = "done" =>
            /\ prefetch.reported = <<[count |-> Cardinality(StoredTiles),
                                      total |-> Len(prefetch.urls)]>>
            /\ prefetch.reported[1].count >= 0
            /\ prefetch.reported[1].count <= prefetch.reported[1].total
            /\ prefetch.maxZoom < MinZoom =>
                  prefetch.reported = <<[count |-> 0, total |-> 0]>>)
    /\ (prefetch.pc # "idle") ~> (prefetch.pc = "done")

\* A prefetch ended in which one tile was stored and the fetch of another
\* was rejected.
C28_Witness ==
    /\ prefetch.pc = "done"
    /\ Len(prefetch.urls) >= 3
    /\ prefetch.reported[1].count > 0
    /\ prefetch.reported[1].count < prefetch.reported[1].total
    /\ prefetch.urls[1] \notin DOMAIN caches[TILE_CACHE]
    /\ prefetch.urls[2] \in DOMAIN caches[TILE_CACHE]

\* C29: at every point of a drain in which every attempt so far succeeded,
\* the entries of its snapshot that are gone from the queue are an initial
\* part of the snapshot in enqueue order (ascending id) and include every
\* entry it has attempted, and the rest of the snapshot is still queued,
\* unchanged.
C29_RemovedEntriesFormPrefix ==
    \A r \in 1..MaxEvents :
        LET dr == drains[r]
            ids == {dr.pending[k].id : k \in 1..Len(dr.pending)}
            removed == ids \ QueueIds
        IN  (dr.pc \in {"loop", "done"} /\ dr.failed = 0) =>
                /\ \A a \in removed : \A b \in ids : b < a => b \in removed
                /\ Range(dr.sent) \subseteq removed
                /\ \A k \in 1..Len(dr.pending) :
                      dr.pending[k].id \in QueueIds => dr.pending[k] \in db.sync_queue

\* C30: as saveGPSPoint, handlePhotoCapture or saveNotes returns, online or
\* offline, the mutation is in the local store and the queue holds an entry
\* for it, and when the client is online the handler has started a drain.
C30_MutationsLocalFirst ==
    [][(/\ now' # now
        /\ lastSubmit'.t = now'
        /\ lastSubmit'.op \in {"saveGPSPoint", "handlePhotoCapture", "saveNotes"}) =>
          /\ HasLocalWrite(db', lastSubmit'.op, now')
          /\ EntriesFor(db', now') # {}
          /\ online => runs' > runs]_vars

\* C31: once the queue is empty and no drain is running, if the server has
\* applied the latest project save of the client, the server's copy of the
\* project is the state that save sent: no older PUT was applied after it.
C31_ServerHoldsLatestProject ==
    (/\ db.sync_queue = {}
     /\ InFlight = {}
     /\ lastSubmit.op = "saveNotes"
     /\ lastSubmit.t \in accepted) =>
        server.project = projectData

\* The ids of the entries of a drain's snapshot.
SnapshotIds(dr) == {dr.pending[k].id : k \in 1..Len(dr.pending)}

\* C32: a drain attempts only entries of the snapshot it read at its start,
\* and a drain's iteration removes no entry that is not in its snapshot: an
\* entry enqueued while it runs stays queued.
C32_DrainWorksOnSnapshot ==
    /\ [](\A r \in 1..MaxEvents : Range(drains[r].sent) \subseteq SnapshotIds(drains[r]))
    /\ [][\A r \in 1..MaxEvents :
            (drains[r].pc = "loop" /\ drains'[r] # drains[r]) =>
                \A e \in db.sync_queue :
                    e.id \notin SnapshotIds(drains[r]) => e \in db'.sync_queue]_vars

\* A drain has ended while an entry that was enqueued after the drain read
\* its snapshot is still queued and was never attempted.
C32_Witness ==
    \E r \in 1..MaxEvents : \E e \in db.sync_queue :
        /\ drains[r].pc = "done"
        /\ Len(drains[r].pending) >= 1
        /\ e.id \notin SnapshotIds(drains[r])
        /\ e.id > drains[r].pending[1].id
        /\ ~Attempted(e.id)
        /\ InFlight = {}

\* C33: an entry that is in the queue while the client is online is
\* attempted by some drain, unless the client goes offline first: no further
\* 'online' event or 'do-sync' message is needed for it.
C33_QueuedWhileOnlineIsAttempted ==
    \A id \in 1..MaxEvents :
        (id \in QueueIds /\ online) ~> (Attempted(id) \/ ~online)

\* The invocations of syncPendingData that ran while invocation r did.
Overlapping(r) ==
    {q \in 1..MaxEvents : q \in drains[r].overlaps \/ r \in drains[q].overlaps}

\* C34: a drain that starts online takes the whole queue as its snapshot and,
\* once it has returned, synced + failed is the number of entries of that
\* snapshot; when no other drain ran at the same time, the entries of the
\* snapshot still queued as it returns number the snapshot's length minus
\* synced.
C34_CountsAddUp ==
    /\ [](\A r \in 1..MaxEvents :
            drains[r].pc = "done" =>
                drains[r].synced + drains[r].failed = Len(drains[r].pending))
    /\ [][\A r \in 1..MaxEvents :
            /\ (drains[r].pc = "idle" /\ drains'[r].pc # "idle" /\ online') =>
                   Len(drains'[r].pending) = Cardinality(db.sync_queue)
            /\ (drains[r].pc = "loop" /\ drains'[r].pc = "done"
                  /\ \A q \in 1..MaxEvents :
                        q \notin drains'[r].overlaps /\ r \notin drains'[q].overlaps) =>
                   Cardinality(SnapshotIds(drains'[r]) \cap {e.id : e \in db'.sync_queue})
                     = Len(drains'[r].pending) - drains'[r].synced]_vars

\* A drain that ran alone has returned having synced the one entry that the
\* two drains of the 'online' event before it had failed to send.
C34_Witness ==
    \E r \in 1..MaxEvents :
        /\ drains[r].pc = "done"
        /\ Overlapping(r) = {}
        /\ Len(drains[r].pending) >= 1
        /\ drains[r].synced = 1
        /\ db.sync_queue = {}
        /\ \E q \in 1..MaxEvents : drains[q].pc = "done" /\ drains[q].failed = 1

\* C35: a step of a drain, its start included, leaves the projects,
\* gps_points, photos and boundaries collections as they were, and the synced
\* flag of every record of the local store is false at all times, also after
\* the record's queue entry was acknowledged and removed.
C35_DrainTouchesOnlyQueue ==
    /\ [][drains' # drains =>
            /\ db'.projects = db.projects
            /\ db'.gps_points = db.gps_points
            /\ db'.photos = db.photos
            /\ db'.boundaries = db.boundaries]_vars
    /\ [](/\ \A rec \in db.projects : rec.synced = FALSE
          /\ \A rec \in db.gps_points : rec.synced = FALSE
          /\ \A rec \in db.photos : rec.synced = FALSE)

\* A GPS point saved locally whose queue entry a drain sent, had acknowledged
\* and removed, next to a downloaded project.
C35_Witness ==
    /\ db.projects # {}
    /\ \E rec \in db.gps_points :
          /\ rec.timestamp \in accepted
          /\ \A e \in db.sync_queue : e.timestamp # rec.timestamp
    /\ acked.delivered # {}
    /\ InFlight = {}

\* C36: a drain that has started goes on when the client goes offline: once
\* it has returned it has attempted every entry of its snapshot, an attempt
\* made while offline leaves the queue as it was, and no attempt removes an
\* entry without being counted as synced.
C36_OfflineMidDrain ==
    /\ [](\A r \in 1..MaxEvents :
            drains[r].pc = "done" => Range(drains[r].sent) = SnapshotIds(drains[r]))
    /\ [][\A r \in 1..MaxEvents :
            Len(drains'[r].sent) > Len(drains[r].sent) =>
                /\ ~online => db'.sync_queue = db.sync_queue
                /\ db'.sync_queue # db.sync_queue =>
                      drains'[r].synced = drains[r].synced + 1]_vars

\* The copies of the point captured at clock value t in the in-memory project.
MemoryCopies(pd, t) ==
    {k \in 1..Len(pd.gps_points) : pd.gps_points[k].timestamp = ToISOString(t)}

\* C37: a call of saveGPSPoint that ends with the point saved has added
\* exactly one copy of the point to the in-memory project, at most one record
\* to the local gps_points collection and at most one queue entry.
C37_OneCopyPerSave ==
    [][(/\ now' # now
        /\ lastSubmit'.t = now'
        /\ lastSubmit'.op = "saveGPSPoint"
        /\ MemoryCopies(projectData', now') # {}) =>
          /\ Cardinality(MemoryCopies(projectData', now')) = 1
          /\ Cardinality(LocalRecords(db', "saveGPSPoint", now')) <= 1
          /\ Cardinality(EntriesFor(db', now')) <= 1]_vars

\* C38: every response the tile cache holds is an ok response, so a GET of a
\* tile whose earlier fetch was answered non-ok or failed is put on the
\* network again.
C38_TileCacheHoldsOnlyOk ==
    \A u \in DOMAIN OpenCache(caches, TILE_CACHE) : caches[TILE_CACHE][u].ok

====
